---- MODULE Spec2Model ----
(***************************************************************************)
(* Model of analyze_repo.py: the numstat parser, the commit sequencer of   *)
(* analyze(), the distribution estimator calculate_statistics(), the       *)
(* outlier classifier detect_ai_contribution(), the reporter and main()'s  *)
(* error handling.                                                         *)
(*                                                                         *)
(* Floating-point values of the program (percentages, quartiles) are       *)
(* modelled as exact rationals <<numerator, denominator>>; None is <<>>.   *)
(* Raw git output is a sequence of decoding units: an ASCII character, the *)
(* character U+00B2 ("sup2") or a byte that is not valid UTF-8 ("xFF").    *)
(***************************************************************************)
EXTENDS Integers, Sequences, FiniteSets

\* longest commit list rev-list returns
MaxCommits == 4
\* longest raw numstat text given to parse_numstat on its own
MaxBytes == 5
\* largest changed-line count given to detect_ai_contribution on its own
MaxChanges == 25

None == <<>>

-----------------------------------------------------------------------------
(* Exact arithmetic standing for the program's floats *)

RECURSIVE GCD(_, _)
GCD(a, b) == IF b = 0 THEN a ELSE GCD(b, a % b)

Abs(n) == IF n < 0 THEN -n ELSE n

Rat(n, d) ==
    LET s == IF d < 0 THEN -1 ELSE 1
        g == GCD(Abs(n), Abs(d))
    IN  <<(s * n) \div g, (s * d) \div g>>

RatInt(n) == <<n, 1>>

LCM(a, b) == (a \div GCD(a, b)) * b

\* the numerator of x over the common denominator of x and y
Over(x, y) == x[1] * (LCM(x[2], y[2]) \div x[2])

RatAdd(x, y) == Rat(Over(x, y) + Over(y, x), LCM(x[2], y[2]))
RatSub(x, y) == Rat(Over(x, y) - Over(y, x), LCM(x[2], y[2]))
RatScale(k, x) == Rat(k * x[1], x[2])
RatDivInt(x, k) == Rat(x[1], x[2] * k)
RatLess(x, y) == Over(x, y) < Over(y, x)
RatLeq(x, y) == Over(x, y) <= Over(y, x)
RatEq(x, y) == Over(x, y) = Over(y, x)

RECURSIVE SumRat(_)
SumRat(s) == IF s = <<>> THEN RatInt(0) ELSE RatAdd(Head(s), SumRat(Tail(s)))

RECURSIVE InsertSorted(_, _)
InsertSorted(x, s) ==
    IF s = <<>> THEN <<x>>
    ELSE IF RatLeq(x, Head(s)) THEN <<x>> \o s
    ELSE <<Head(s)>> \o InsertSorted(x, Tail(s))

RECURSIVE SortRat(_)
SortRat(s) == IF s = <<>> THEN <<>> ELSE InsertSorted(Head(s), SortRat(Tail(s)))

-----------------------------------------------------------------------------
(* parse_numstat *)

\* characters for which str.isdigit() is true: ASCII digits and U+00B2
DigitChars == {"0", "1", "2", "3", "4", "5", "6", "7", "8", "9", "sup2"}
\* characters int() accepts as digits
DecimalChars == {"0", "1", "2", "3", "4", "5", "6", "7", "8", "9"}

DigitVal(c) ==
    CASE c = "0" -> 0 [] c = "1" -> 1 [] c = "2" -> 2 [] c = "3" -> 3
      [] c = "4" -> 4 [] c = "5" -> 5 [] c = "6" -> 6 [] c = "7" -> 7
      [] c = "8" -> 8 [] c = "9" -> 9

\* bytes.splitlines(): pieces between "\n", no empty piece after a final "\n"
RECURSIVE SplitOn(_, _, _)
SplitOn(s, sep, cur) ==
    IF s = <<>> THEN <<cur>>
    ELSE IF Head(s) = sep THEN <<cur>> \o SplitOn(Tail(s), sep, <<>>)
    ELSE SplitOn(Tail(s), sep, Append(cur, Head(s)))

splitlines(output) ==
    LET pieces == SplitOn(output, "\n", <<>>)
    IN  IF pieces[Len(pieces)] = <<>> THEN SubSeq(pieces, 1, Len(pieces) - 1)
        ELSE pieces

\* bytes.decode('utf-8', errors='ignore'): invalid bytes are dropped
decode(line) == SelectSeq(line, LAMBDA b : b # "xFF")

\* str.split('\t'): always at least one part
split(str) == SplitOn(str, "\t", <<>>)

isdigit(s) == Len(s) > 0 /\ \A i \in 1..Len(s) : s[i] \in DigitChars

\* int(s) raises ValueError unless every character is a decimal digit
IntRaises(s) == s = <<>> \/ \E i \in 1..Len(s) : s[i] \notin DecimalChars

RECURSIVE IntValue(_, _)
IntValue(s, acc) ==
    IF s = <<>> THEN acc ELSE IntValue(Tail(s), acc * 10 + DigitVal(Head(s)))

int(s) == IntValue(s, 0)

\* the if of the loop body: len(parts) >= 2 and both isdigit()
LineCounts(parts) == Len(parts) >= 2 /\ isdigit(parts[1]) /\ isdigit(parts[2])

RECURSIVE ParseLines(_, _, _)
ParseLines(lines, added, deleted) ==
    IF lines = <<>> THEN [raised |-> FALSE, added |-> added, deleted |-> deleted]
    ELSE LET parts == split(decode(Head(lines)))
         IN  IF LineCounts(parts)
             THEN IF IntRaises(parts[1]) \/ IntRaises(parts[2])
                  THEN [raised |-> TRUE, added |-> 0, deleted |-> 0]
                  ELSE ParseLines(Tail(lines), added + int(parts[1]),
                                  deleted + int(parts[2]))
             ELSE ParseLines(Tail(lines), added, deleted)

\* raised: a ValueError left the function and nothing was returned
parse_numstat(output) == ParseLines(splitlines(output), 0, 0)

-----------------------------------------------------------------------------
(* The commit sequencer: one iteration of the for loop of analyze() *)

FirstRecord(commit, added, deleted) ==
    [commit |-> commit, changes |-> added + deleted, pct |-> None,
     total |-> added]

LaterTotal_sum(prev_total, added, deleted) == prev_total + added + deleted

LaterTotal_clamped(prev_total, added, deleted) ==
    IF prev_total + added - deleted < 0 THEN 0
    ELSE prev_total + added - deleted

LaterTotal(prev_total, added, deleted) == prev_total + added - deleted

LaterPct_own(changed, prev_total, total) ==
    IF total > 0 THEN Rat(changed * 100, total) ELSE None

\* prev_total is an integer here, so "prev_total and prev_total > 0" is
\* prev_total > 0
LaterPct(changed, prev_total, total) ==
    IF prev_total # 0 /\ prev_total > 0 THEN Rat(changed * 100, prev_total)
    ELSE None

LaterRecord(commit, prev_total, added, deleted) ==
    LET changed == added + deleted
        total == LaterTotal(prev_total, added, deleted)
    IN  [commit |-> commit, changes |-> changed,
         pct |-> LaterPct(changed, prev_total, total), total |-> total]

\* the loop run to its end over the parsed (added, deleted) pairs
RECURSIVE Sequencer(_, _)
Sequencer(pairs, data) ==
    IF pairs = <<>> THEN data
    ELSE LET p == Head(pairs)
             c == Len(data) + 1
         IN  Sequencer(Tail(pairs),
                 Append(data,
                     IF data = <<>> THEN FirstRecord(c, p[1], p[2])
                     ELSE LaterRecord(c, data[Len(data)].total, p[1], p[2])))

-----------------------------------------------------------------------------
(* calculate_statistics *)

\* np.percentile(a, 25 * quarters): linear interpolation between the order
\* statistics around the virtual index quarters/4 * (n - 1)
Percentile(values, quarters) ==
    LET sorted == SortRat(values)
        n == Len(sorted)
        pos4 == quarters * (n - 1)
        lo == (pos4 \div 4) + 1
        hi == IF lo + 1 > n THEN n ELSE lo + 1
        gamma4 == pos4 % 4
    IN  RatAdd(sorted[lo],
               RatDivInt(RatScale(gamma4, RatSub(sorted[hi], sorted[lo])), 4))

Mean(values) == RatDivInt(SumRat(values), Len(values))

Median(values) ==
    LET sorted == SortRat(values)
        n == Len(sorted)
    IN  IF n % 2 = 1 THEN sorted[(n + 1) \div 2]
        ELSE RatDivInt(RatAdd(sorted[n \div 2], sorted[(n \div 2) + 1]), 2)

\* statistics.stdev is kept symbolic: the square root is not a rational
Stdev(values) == <<"stdev", values>>

PctChanges(data) ==
    LET defined == SelectSeq(data, LAMBDA d : d.pct # None)
    IN  [i \in 1..Len(defined) |-> defined[i].pct]

PctQ1(pct_changes) ==
    IF Len(pct_changes) > 0 THEN Percentile(pct_changes, 1) ELSE RatInt(0)

PctQ3(pct_changes) ==
    IF Len(pct_changes) > 0 THEN Percentile(pct_changes, 3) ELSE RatInt(0)

EmptyDict == [k \in {} |-> 0]

calculate_statistics(data) ==
    IF data = <<>> THEN EmptyDict
    ELSE LET changes == [i \in 1..Len(data) |-> RatInt(data[i].changes)]
             pct_changes == PctChanges(data)
             q1 == PctQ1(pct_changes)
             q3 == PctQ3(pct_changes)
         IN  [changes_mean |-> Mean(changes),
              changes_median |-> Median(changes),
              changes_std |-> IF Len(changes) > 1 THEN Stdev(changes)
                              ELSE <<"0">>,
              pct_mean |-> IF pct_changes # <<>> THEN Mean(pct_changes)
                           ELSE RatInt(0),
              pct_std |-> IF Len(pct_changes) > 1 THEN Stdev(pct_changes)
                          ELSE <<"0">>,
              pct_changes |-> pct_changes,
              pct_q1 |-> q1,
              pct_q3 |-> q3,
              pct_iqr |-> RatSub(q3, q1)]

\* the keys print_statistics reads
ReporterKeys ==
    {"changes_mean", "changes_median", "changes_std", "pct_mean", "pct_std",
     "pct_q1", "pct_q3", "pct_iqr"}

-----------------------------------------------------------------------------
(* detect_ai_contribution *)

StrongFence == 3
MildFence == <<3, 2>>

\* the local pct_change of detect_ai_contribution
ClassifierPct(changes, total_lines) ==
    IF total_lines > 0 THEN Rat(changes * 100, total_lines) ELSE RatInt(0)

Label_inclusive(pct_change, q3, iqr) ==
    IF RatLess(RatInt(0), iqr)
    THEN LET diff == RatSub(pct_change, q3)
         IN  IF RatLeq(RatScale(StrongFence, iqr), diff) THEN "Likely AI"
             ELSE IF RatLeq(RatScale(MildFence[1], iqr), RatScale(MildFence[2], diff))
                  THEN "Possible AI"
                  ELSE "Likely Human"
    ELSE "Likely Human"

\* iqrs_above_q3 = (pct_change - q3) / iqr is compared with iqr > 0
\* multiplied through
Label(pct_change, q3, iqr) ==
    IF RatLess(RatInt(0), iqr)
    THEN LET diff == RatSub(pct_change, q3)
         IN  IF RatLess(RatScale(StrongFence, iqr), diff) THEN "Likely AI"
             ELSE IF RatLess(RatScale(MildFence[1], iqr), RatScale(MildFence[2], diff))
                  THEN "Possible AI"
                  ELSE "Likely Human"
    ELSE "Likely Human"

detect_ai_contribution(changes, total_lines, stats) ==
    IF stats.pct_changes = <<>> THEN "N/A"
    ELSE Label(ClassifierPct(changes, total_lines), stats.pct_q3, stats.pct_iqr)

\* f"{pct:.2f}%", as hundredths of a percent rounded to nearest
PctStr(pct) ==
    IF pct = None THEN <<"N/A">>
    ELSE <<(2 * 100 * pct[1] + pct[2]) \div (2 * pct[2]), "%">>

TableRow(data, stats) ==
    [commit |-> data.commit, changes |-> data.changes,
     pct_str |-> PctStr(data.pct), total |-> data.total,
     label |-> detect_ai_contribution(data.changes, data.total, stats)]

-----------------------------------------------------------------------------
(* The run: main() calling analyze() *)

VARIABLES
    pc,           \* position of the run
    tmpdir,       \* TRUE while the TemporaryDirectory exists
    commits,      \* the list rev-list returned
    prev_total,   \* <<>> for None, else <<total>>
    prev_commit,  \* <<>> for None, else <<commit>>
    out,          \* raw output of the last numstat invocation
    parsed,       \* what parse_numstat did with out
    diffs,        \* the (added, deleted) pairs parse_numstat returned so far
    commit_data,  \* the list of per-commit records
    stats,        \* the dict calculate_statistics returned
    stats_calls,  \* number of calls of calculate_statistics
    table_data,   \* the rows built for the table
    stdout,       \* what was printed to standard output, in order
    error,        \* the exception that ended analyze(), "" if none
    handled,      \* number of times main()'s except clause ran
    exit_code     \* -1 while the process runs

vars == <<pc, tmpdir, commits, prev_total, prev_commit, out, parsed, diffs,
          commit_data, stats, stats_calls, table_data, stdout, error, handled,
          exit_code>>

Unbound == [unbound |-> TRUE]
NotParsed == [raised |-> FALSE, added |-> 0, deleted |-> 0]

Tab == "\t"
Nl == "\n"
NumstatLine(a, d) == <<a, Tab, d, Tab, "f", Nl>>

\* outputs of git diff --numstat the run is given: no change, plain counts,
\* a count of two digits, a binary file's placeholder line before a counted
\* line, an undecodable byte inside a path, and a line whose first field is
\* U+00B2
DiffOutputs ==
    { <<>>,
      NumstatLine("8", "0"),
      NumstatLine("0", "4"),
      NumstatLine("2", "0"),
      <<"1", "2", Tab, "2", Tab, "f", Nl>>,
      NumstatLine("-", "-") \o NumstatLine("3", "1"),
      <<"1", Tab, "1", Tab, "xFF", "f", Nl>>,
      NumstatLine("sup2", "1") }

\* git show --numstat prints the commit header before the numstat lines
ShowOutputs == { <<"c", "o", "m", "m", "i", "t", Nl, Nl>> \o o : o \in DiffOutputs }

Printed(kind, rows) == [kind |-> kind, rows |-> rows]

Init ==
    /\ pc = "clone"
    /\ tmpdir = TRUE
    /\ commits = <<>>
    /\ prev_total = None
    /\ prev_commit = None
    /\ out = <<>>
    /\ parsed = NotParsed
    /\ diffs = <<>>
    /\ commit_data = <<>>
    /\ stats = Unbound
    /\ stats_calls = 0
    /\ table_data = <<>>
    /\ stdout = <<>>
    /\ error = ""
    /\ handled = 0
    /\ exit_code = -1

\* run_git(['clone', ...]) returns
Clone ==
    /\ pc = "clone"
    /\ stdout' = Append(stdout, Printed("cloning", <<>>))
    /\ pc' = "rev_list"
    /\ UNCHANGED <<tmpdir, commits, prev_total, prev_commit, out, parsed, diffs,
                   commit_data, stats, stats_calls, table_data, error, handled,
                   exit_code>>

\* run_git(['rev-list', ...]) returns n commit identifiers
RevList ==
    /\ pc = "rev_list"
    /\ \E n \in 0..MaxCommits : commits' = [i \in 1..n |-> i]
    /\ stdout' = Append(stdout, Printed("found", <<>>))
    /\ pc' = "for"
    /\ UNCHANGED <<tmpdir, prev_total, prev_commit, out, parsed, diffs,
                   commit_data, stats, stats_calls, table_data, error, handled,
                   exit_code>>

\* the commit the for loop is at
Current == commits[Len(commit_data) + 1]

\* run_git(['show', '-s', '--format=%ci', commit]) returns
ShowDate ==
    /\ pc = "for"
    /\ Len(commit_data) < Len(commits)
    /\ pc' = "numstat"
    /\ UNCHANGED <<tmpdir, commits, prev_total, prev_commit, out, parsed, diffs,
                   commit_data, stats, stats_calls, table_data, stdout, error,
                   handled, exit_code>>

AppendRecord_emit(rec) ==
    /\ commit_data' = Append(commit_data, rec)
    /\ stdout' = Append(stdout, Printed("table", <<rec>>))

\* commit_data.append(...): nothing is printed inside the loop
AppendRecord(rec) ==
    /\ commit_data' = Append(commit_data, rec)
    /\ stdout' = stdout

\* what the loop body does after the numstat invocation returned o:
\* parse, build the record, append, carry prev_total and prev_commit
LoopBody(o, first) ==
    LET res == parse_numstat(o)
        rec == IF first THEN FirstRecord(Current, res.added, res.deleted)
               ELSE LaterRecord(Current, prev_total[1], res.added, res.deleted)
    IN  /\ out' = o
        /\ parsed' = res
        /\ IF res.raised
           THEN /\ error' = "ValueError"
                /\ tmpdir' = FALSE
                /\ pc' = "uncaught"
                /\ UNCHANGED <<prev_total, prev_commit, diffs, commit_data,
                               stdout>>
           ELSE /\ AppendRecord(rec)
                /\ diffs' = Append(diffs, <<res.added, res.deleted>>)
                /\ prev_total' = <<rec.total>>
                /\ prev_commit' = <<Current>>
                /\ pc' = "for"
                /\ UNCHANGED <<error, tmpdir>>
        /\ UNCHANGED <<commits, stats, stats_calls, table_data, handled,
                       exit_code>>

\* initial commit: run_git(['show', '--numstat', commit]) returns
ShowNumstat ==
    /\ pc = "numstat"
    /\ prev_commit = None
    /\ \E o \in ShowOutputs : LoopBody(o, TRUE)

\* run_git(['diff', '--numstat', prev_commit, commit]) returns
DiffNumstat ==
    /\ pc = "numstat"
    /\ prev_commit # None
    /\ \E o \in DiffOutputs : LoopBody(o, FALSE)

\* any of the four git invocations exits non-zero: check_output raises
\* CalledProcessError, which leaves analyze() and removes the directory
GitFails ==
    /\ \/ pc \in {"clone", "rev_list", "numstat"}
       \/ pc = "for" /\ Len(commit_data) < Len(commits)
    /\ error' = "CalledProcessError"
    /\ tmpdir' = FALSE
    /\ pc' = "except"
    /\ UNCHANGED <<commits, prev_total, prev_commit, out, parsed, diffs,
                   commit_data, stats, stats_calls, table_data, stdout, handled,
                   exit_code>>

\* the loop is over: stats = calculate_statistics(commit_data)
CalculateStatistics ==
    /\ pc = "for"
    /\ Len(commit_data) = Len(commits)
    /\ stats' = calculate_statistics(commit_data)
    /\ stats_calls' = stats_calls + 1
    /\ pc' = "table"
    /\ UNCHANGED <<tmpdir, commits, prev_total, prev_commit, out, parsed, diffs,
                   commit_data, table_data, stdout, error, handled, exit_code>>

BuildRow_online ==
    /\ pc = "table"
    /\ Len(table_data) < Len(commit_data)
    /\ LET k == Len(table_data) + 1
           seen == calculate_statistics(SubSeq(commit_data, 1, k))
       IN  /\ stats' = seen
           /\ stats_calls' = stats_calls + 1
           /\ table_data' = Append(table_data, TableRow(commit_data[k], seen))
    /\ UNCHANGED <<pc, tmpdir, commits, prev_total, prev_commit, out, parsed,
                   diffs, commit_data, stdout, error, handled, exit_code>>

\* one iteration of "for data in commit_data"
BuildRow ==
    /\ pc = "table"
    /\ Len(table_data) < Len(commit_data)
    /\ table_data' =
           Append(table_data, TableRow(commit_data[Len(table_data) + 1], stats))
    /\ UNCHANGED <<pc, tmpdir, commits, prev_total, prev_commit, out, parsed,
                   diffs, commit_data, stats, stats_calls, stdout, error,
                   handled, exit_code>>

\* print(tabulate(table_data, ...))
PrintTable ==
    /\ pc = "table"
    /\ Len(table_data) = Len(commit_data)
    /\ stdout' = Append(stdout, Printed("table", table_data))
    /\ pc' = "print_statistics"
    /\ UNCHANGED <<tmpdir, commits, prev_total, prev_commit, out, parsed, diffs,
                   commit_data, stats, stats_calls, table_data, error, handled,
                   exit_code>>

\* print_statistics(stats): the table is built from the eight keys before
\* anything of it is printed; a missing key raises KeyError
PrintStatistics ==
    /\ pc = "print_statistics"
    /\ stdout' = Append(stdout, Printed("statistics header", <<>>))
    /\ IF ReporterKeys \subseteq DOMAIN stats
       THEN /\ pc' = "print_statistics_table"
            /\ UNCHANGED <<error, tmpdir>>
       ELSE /\ error' = "KeyError"
            /\ tmpdir' = FALSE
            /\ pc' = "uncaught"
    /\ UNCHANGED <<commits, prev_total, prev_commit, out, parsed, diffs,
                   commit_data, stats, stats_calls, table_data, handled,
                   exit_code>>

\* print(tabulate(stats_table, ...)), then analyze() and main() return
PrintStatisticsTable ==
    /\ pc = "print_statistics_table"
    /\ stdout' = Append(stdout, Printed("statistics", <<>>))
    /\ tmpdir' = FALSE
    /\ exit_code' = 0
    /\ pc' = "exited"
    /\ UNCHANGED <<commits, prev_total, prev_commit, out, parsed, diffs,
                   commit_data, stats, stats_calls, table_data, error, handled>>

ExceptExitCode == 1

\* except subprocess.CalledProcessError: message on stderr, sys.exit(1)
MainExcept ==
    /\ pc = "except"
    /\ handled' = handled + 1
    /\ exit_code' = ExceptExitCode
    /\ pc' = "exited"
    /\ UNCHANGED <<tmpdir, commits, prev_total, prev_commit, out, parsed, diffs,
                   commit_data, stats, stats_calls, table_data, stdout, error>>

\* an exception main() does not catch ends the interpreter with a traceback
\* and exit status 1
Uncaught ==
    /\ pc = "uncaught"
    /\ exit_code' = 1
    /\ pc' = "exited"
    /\ UNCHANGED <<tmpdir, commits, prev_total, prev_commit, out, parsed, diffs,
                   commit_data, stats, stats_calls, table_data, stdout, error,
                   handled>>

Next ==
    \/ Clone
    \/ RevList
    \/ ShowDate
    \/ ShowNumstat
    \/ DiffNumstat
    \/ GitFails
    \/ CalculateStatistics
    \/ BuildRow
    \/ PrintTable
    \/ PrintStatistics
    \/ PrintStatisticsTable
    \/ MainExcept
    \/ Uncaught

Spec == Init /\ [][Next]_vars

-----------------------------------------------------------------------------
(* parse_numstat on its own, over every raw text of at most MaxBytes units *)

ParseAlphabet == {"3", "-", Tab, Nl, "sup2", "xFF"}

RawTexts == UNION { [1..n -> ParseAlphabet] : n \in 0..MaxBytes }

InitParse ==
    /\ pc = "parse_numstat"
    /\ out \in RawTexts
    /\ tmpdir = FALSE
    /\ commits = <<>>
    /\ prev_total = None
    /\ prev_commit = None
    /\ parsed = NotParsed
    /\ diffs = <<>>
    /\ commit_data = <<>>
    /\ stats = Unbound
    /\ stats_calls = 0
    /\ table_data = <<>>
    /\ stdout = <<>>
    /\ error = ""
    /\ handled = 0
    /\ exit_code = -1

ParseCall ==
    /\ pc = "parse_numstat"
    /\ parsed' = parse_numstat(out)
    /\ pc' = "parse_numstat_return"
    /\ UNCHANGED <<tmpdir, commits, prev_total, prev_commit, out, diffs,
                   commit_data, stats, stats_calls, table_data, stdout, error,
                   handled, exit_code>>

NextParse == ParseCall

SpecParse == InitParse /\ [][NextParse]_vars

-----------------------------------------------------------------------------
(* detect_ai_contribution on its own: the summary of a finished sequence,  *)
(* then any changed count and total                                        *)

\* (added, deleted) sequences whose percentages are (none), (10),
\* (4, 8, 12) and (0, 20)
SampleHistories ==
    { << <<5, 0>> >>,
      << <<10, 0>>, <<1, 0>> >>,
      << <<100, 0>>, <<2, 2>>, <<4, 4>>, <<6, 6>> >>,
      << <<100, 0>>, <<0, 0>>, <<10, 10>> >> }

\* total_lines given to the classifier
TotalArgs == {0, 50, 100}

InitClassify ==
    /\ pc = "calculate_statistics"
    /\ \E h \in SampleHistories :
          /\ diffs = h
          /\ commit_data = Sequencer(h, <<>>)
          /\ commits = [i \in 1..Len(h) |-> i]
    /\ prev_total = <<commit_data[Len(commit_data)].total>>
    /\ prev_commit = <<Len(commit_data)>>
    /\ tmpdir = TRUE
    /\ out = <<>>
    /\ parsed = NotParsed
    /\ stats = Unbound
    /\ stats_calls = 0
    /\ table_data = <<>>
    /\ stdout = <<>>
    /\ error = ""
    /\ handled = 0
    /\ exit_code = -1

Estimate ==
    /\ pc = "calculate_statistics"
    /\ stats' = calculate_statistics(commit_data)
    /\ stats_calls' = stats_calls + 1
    /\ pc' = "detect_ai_contribution"
    /\ UNCHANGED <<tmpdir, commits, prev_total, prev_commit, out, parsed, diffs,
                   commit_data, table_data, stdout, error, handled, exit_code>>

ClassifyCall ==
    /\ pc = "detect_ai_contribution"
    /\ \E c \in 0..MaxChanges, t \in TotalArgs :
          table_data' =
              <<TableRow([commit |-> 0, changes |-> c, pct |-> None, total |-> t],
                         stats)>>
    /\ pc' = "detect_ai_contribution_return"
    /\ UNCHANGED <<tmpdir, commits, prev_total, prev_commit, out, parsed, diffs,
                   commit_data, stats, stats_calls, stdout, error, handled,
                   exit_code>>

NextClassify == Estimate \/ ClassifyCall

SpecClassify == InitClassify /\ [][NextClassify]_vars

-----------------------------------------------------------------------------
(* Properties *)

Last(seq) == seq[Len(seq)]

\* C1: total[0] = added[0] and total[i] = total[i-1] + added[i] - deleted[i]
\* for every later record, with added/deleted the pair parsed for commit i;
\* a commit whose diff has no numstat lines has changed = 0 and its
\* predecessor's total.
C1_TotalRecurrence ==
    /\ Len(diffs) = Len(commit_data)
    /\ \A i \in 1..Len(commit_data) :
          commit_data[i].total =
              IF i = 1 THEN diffs[1][1]
              ELSE commit_data[i - 1].total + diffs[i][1] - diffs[i][2]
    /\ (Len(commit_data) >= 2 /\ ~parsed.raised /\ splitlines(out) = <<>>)
          => /\ Last(commit_data).changes = 0
             /\ Last(commit_data).total = commit_data[Len(commit_data) - 1].total

\* three records, a deletion in the middle one, an empty diff for the last
C1_Witness ==
    /\ Len(commit_data) = 3
    /\ diffs[2][2] > 0
    /\ ~parsed.raised
    /\ splitlines(out) = <<>>

\* C2: percentChange[i] is None exactly when i = 0 or total[i-1] <= 0, and is
\* otherwise (added[i] + deleted[i]) / total[i-1] * 100.
C2_PercentChange ==
    \A i \in 1..Len(commit_data) :
        LET r == commit_data[i]
        IN  /\ r.changes = diffs[i][1] + diffs[i][2]
            /\ (r.pct = None) <=> (i = 1 \/ commit_data[i - 1].total <= 0)
            /\ r.pct # None =>
                  r.pct[1] * commit_data[i - 1].total = r.changes * 100 * r.pct[2]

\* a record after a non-positive total, and a defined percentage of a commit
\* whose own total differs from its predecessor's
C2_Witness ==
    /\ \E i \in 2..Len(commit_data) : commit_data[i].pct = None
    /\ \E i \in 2..Len(commit_data) :
          /\ commit_data[i].pct # None
          /\ commit_data[i].changes > 0
          /\ commit_data[i].total # commit_data[i - 1].total

\* the claim's reading of the classifier, for one row and the summary
ClaimedLabel(changes, total, summary) ==
    LET pct == IF total > 0 THEN <<changes * 100, total>> ELSE <<0, 1>>
        q3 == summary.pct_q3
        iqr == summary.pct_iqr
        \* excess = (pct - q3) / iqr, compared as excess * iqr
        above == RatSub(pct, q3)
    IN  IF Len(summary.pct_changes) = 0 THEN "N/A"
        ELSE IF iqr[1] <= 0 THEN "Likely Human"
        ELSE IF above[1] * iqr[2] > 3 * iqr[1] * above[2] THEN "Likely AI"
        ELSE IF 2 * above[1] * iqr[2] > 3 * iqr[1] * above[2] THEN "Possible AI"
        ELSE "Likely Human"

\* C3: the label is 'N/A' iff the summary has no percentChange sample;
\* otherwise 'Likely Human' when iqr <= 0, else by excess = (pct - q3) / iqr:
\* 'Likely AI' iff excess > 3, 'Possible AI' iff 1.5 < excess <= 3,
\* 'Likely Human' iff excess <= 1.5; no pct at or below q3 is flagged.
C3_Classifier ==
    \A k \in 1..Len(table_data) :
        LET r == table_data[k]
        IN  /\ r.label = ClaimedLabel(r.changes, r.total, stats)
            /\ (r.label = "N/A") <=> (stats.pct_changes = <<>>)
            /\ (stats.pct_changes # <<>>
                  /\ RatLeq(ClassifierPct(r.changes, r.total), stats.pct_q3))
                  => r.label = "Likely Human"

\* q3 = 10, iqr = 4 and pct = 22: excess is exactly 3, which is not above it
C3_Witness ==
    /\ pc = "detect_ai_contribution_return"
    /\ stats.pct_q3 = <<10, 1>>
    /\ stats.pct_iqr = <<4, 1>>
    /\ table_data[1].changes = 22
    /\ table_data[1].total = 100
    /\ table_data[1].label = "Possible AI"

\* C4: within one run two commits with the same defined percentChange get
\* the same label, and the value tested against the fences is the commit's
\* percentChange.
C4_LabelFromPercentChange ==
    /\ \A i, j \in 1..Len(table_data) :
          (commit_data[i].pct # None /\ commit_data[i].pct = commit_data[j].pct)
              => table_data[i].label = table_data[j].label
    /\ \A i \in 1..Len(table_data) :
          commit_data[i].pct # None
              => RatEq(ClassifierPct(table_data[i].changes, table_data[i].total),
                       commit_data[i].pct)

\* C5: with an empty commit list the run ends normally: no record, a summary
\* holding every field the reporter reads, no exception, exit code 0.
C5_EmptyRunCompletes ==
    (pc \notin {"clone", "rev_list", "except"} /\ error # "CalledProcessError"
        /\ commits = <<>>)
        => /\ commit_data = <<>>
           /\ error = ""
           /\ stats_calls > 0 => ReporterKeys \subseteq DOMAIN stats
           /\ pc = "exited" => exit_code = 0

Reported(kinds) == \E k \in 1..Len(stdout) : stdout[k].kind \in kinds

\* C6: when a git invocation fails, no per-commit row and no statistics are
\* ever printed, the failure is handled once and the exit code is 1; rows
\* are printed only after every commit was sequenced.
C6_NoPartialReport ==
    /\ error = "CalledProcessError"
          => ~Reported({"table", "statistics header", "statistics"})
    /\ handled <= 1
    /\ (pc = "exited" /\ error = "CalledProcessError")
          => (exit_code = 1 /\ handled = 1)
    /\ Reported({"table"})
          => (Len(commit_data) = Len(commits) /\ error # "CalledProcessError")

\* the failure came at the third commit, after two records were appended
C6_Witness ==
    /\ pc = "exited"
    /\ error = "CalledProcessError"
    /\ Len(commit_data) = 2
    /\ Len(commits) >= 3

\* a field the claim counts: a non-empty run of ASCII decimal digits
ValidCount(field) ==
    Len(field) > 0 /\ \A i \in 1..Len(field) : field[i] \in DecimalChars

RECURSIVE ClaimedSum(_, _)
ClaimedSum(lines, col) ==
    IF lines = <<>> THEN 0
    ELSE LET parts == split(decode(Head(lines)))
         IN  (IF Len(parts) >= 2 /\ ValidCount(parts[1]) /\ ValidCount(parts[2])
              THEN int(parts[col]) ELSE 0)
             + ClaimedSum(Tail(lines), col)

\* C7: for every numstat text parse_numstat raises nothing and returns the
\* sums over exactly the lines whose first two fields are valid non-negative
\* integers.
C7_ParserTotal ==
    pc = "parse_numstat_return"
        => /\ ~parsed.raised
           /\ parsed.added = ClaimedSum(splitlines(out), 1)
           /\ parsed.deleted = ClaimedSum(splitlines(out), 2)

C9_TotalNonNegative ==
    \A i \in 1..Len(commit_data) : commit_data[i].total >= 0

\* C9 amended: the total is not clamped: total[0] >= 0, and a later total is
\* non-negative exactly when the diff deletes no more than
\* total[i-1] + added[i] lines.
C9_TotalSign ==
    \A i \in 1..Len(commit_data) :
        /\ diffs[i][1] >= 0
        /\ diffs[i][2] >= 0
        /\ (commit_data[i].total >= 0)
              <=> (i = 1 \/ diffs[i][2] <= commit_data[i - 1].total + diffs[i][1])

\* a diff that deletes more lines than the reconstruction holds
C9_Witness ==
    \E i \in 2..Len(commit_data) :
        /\ commit_data[i - 1].total >= 0
        /\ diffs[i][2] > commit_data[i - 1].total + diffs[i][1]
        /\ commit_data[i].total < 0

\* C10: the first commit's label is 'N/A' in every run.
C10_FirstCommitSkipped ==
    Len(table_data) >= 1
        => /\ table_data[1].pct_str = <<"N/A">>
           /\ table_data[1].label = "N/A"

====
